---- MODULE Spec2Model ----
(***************************************************************************)
(* Dashboard views of apps/dashboards/views.py: the localization data      *)
(* table (fetch_localization_data), the revisions dashboard (revisions)    *)
(* and the two autocomplete lookups (user_lookup, topic_lookup).           *)
(*                                                                         *)
(* Every handler is a single-pass transform of (request, persisted         *)
(* collections) into a response.  The persisted collections are read-only  *)
(* here: Init draws them from bounded sets, and each action is one whole   *)
(* request/response cycle of one handler.                                  *)
(*                                                                         *)
(* Text that the code only compares for equality (locale codes, ordering   *)
(* keys, flag names) is a TLA+ string.  Text that the code searches in     *)
(* or parses (slugs, usernames, titles, the raw iDisplayStart value) is a  *)
(* sequence of one-character strings.                                      *)
(***************************************************************************)
EXTENDS Integers, Sequences, FiniteSets, TLC

VARIABLES
    documents,  \* the persisted Document collection (a set of records)
    revisions,  \* the persisted Revision collection (a set of records)
    users,      \* the persisted User collection (a set of usernames)
    request,    \* the request the last handler served
    response,   \* the response (or the fault) the last handler produced
    docs        \* the records the last handler iterated over, in order

vars == <<documents, revisions, users, request, response, docs>>

-----------------------------------------------------------------------------
(* Bounds of the model.                                                    *)

MaxDocs == 3    \* at most this many persisted documents
MaxRevs == 2    \* at most this many persisted revisions
MaxUsers == 3   \* at most this many persisted users

-----------------------------------------------------------------------------
(* Text helpers.                                                           *)

Min(a, b) == IF a < b THEN a ELSE b

\* A request parameter that is not in the query string.
ABSENT == "<absent>"          \* for parameters compared as whole strings
ABSENT_TEXT == <<"<absent>">> \* for parameters searched in or parsed

Lower(c) ==
    CASE c = "A" -> "a" [] c = "B" -> "b" [] c = "F" -> "f"
      [] c = "O" -> "o" [] c = "R" -> "r" [] c = "Z" -> "z"
      [] OTHER -> c

LowerText(s) == [i \in 1..Len(s) |-> Lower(s[i])]

\* The ORM lookup field__istartswith=needle.
IStartsWith(hay, needle) ==
    /\ Len(needle) <= Len(hay)
    /\ SubSeq(LowerText(hay), 1, Len(needle)) = LowerText(needle)

\* The ORM lookup field__icontains=needle.
IContains(hay, needle) ==
    \E i \in 0..(Len(hay) - Len(needle)) :
        SubSeq(LowerText(hay), i + 1, i + Len(needle)) = LowerText(needle)

\* jinja2.escape: the five HTML-significant characters become entities.
EscapeChar(c) ==
    CASE c = "<" -> <<"&", "l", "t", ";">>
      [] c = ">" -> <<"&", "g", "t", ";">>
      [] c = "&" -> <<"&", "a", "m", "p", ";">>
      [] c = "\"" -> <<"&", "#", "3", "4", ";">>
      [] c = "'" -> <<"&", "#", "3", "9", ";">>
      [] OTHER -> <<c>>

RECURSIVE escape(_)
escape(s) == IF s = <<>> THEN <<>> ELSE EscapeChar(Head(s)) \o escape(Tail(s))

\* Python's int() on a query-string value: an optional sign followed by at
\* least one decimal digit; anything else raises ValueError.
DigitValue(c) ==
    CASE c = "0" -> 0 [] c = "1" -> 1 [] c = "2" -> 2 [] c = "3" -> 3
      [] c = "4" -> 4 [] c = "5" -> 5 [] c = "6" -> 6 [] c = "7" -> 7
      [] c = "8" -> 8 [] c = "9" -> 9 [] OTHER -> -1

Unsigned(s) == IF s # <<>> /\ Head(s) \in {"-", "+"} THEN Tail(s) ELSE s

IsIntLiteral(s) ==
    /\ Unsigned(s) # <<>>
    /\ \A i \in 1..Len(Unsigned(s)) : DigitValue(Unsigned(s)[i]) >= 0

RECURSIVE DigitsValue(_)
DigitsValue(s) ==
    IF s = <<>> THEN 0
    ELSE 10 * DigitsValue(SubSeq(s, 1, Len(s) - 1)) + DigitValue(s[Len(s)])

IntValue(s) ==
    IF s # <<>> /\ Head(s) = "-" THEN 0 - DigitsValue(Unsigned(s))
    ELSE DigitsValue(Unsigned(s))

-----------------------------------------------------------------------------
(* Shared constants of the dashboards package (imported at lines 24-25).   *)

DEFAULT_LOCALE == "en-US"

\* The supported locale codes (the keys the locale filter accepts).
LANGUAGES == {"en-US", "fr", "de"}

\* The sortable fields, as (key, label) pairs; the code reads dict(ORDERS).
ORDERS == {<<"-modified", "Newest first">>, <<"modified", "Oldest first">>}

OrderKeys == {o[1] : o \in ORDERS}

\* The categorical localization flags.
LOCALIZATION_FLAGS == {"update-needed", "missing-parent", "inprogress"}

\* Rows per page of both listings (scaled down from the deployed value).
PAGE_SIZE == 2

-----------------------------------------------------------------------------
(* The persisted collections.                                              *)

\* A null foreign key.
NULL == 0

\* The value of a null current_revision reference.
NoRevision == [id |-> NULL, created |-> 0, title |-> <<>>, tags |-> {}]

Rev(id, created, title, tags) ==
    [id |-> id, created |-> created, title |-> title, tags |-> tags]

Doc(id, locale, slug, title, redirect, modified, parent, rev) ==
    [id |-> id, locale |-> locale, slug |-> slug, title |-> title,
     is_redirect |-> redirect, modified |-> modified, parent |-> parent,
     current_revision |-> rev]

\* The documents a persisted collection is drawn from.  Documents 1 and 2
\* are source-locale documents (2 has no current revision); 3 is a
\* source-locale document that has a parent; 11..18 are the translations of
\* 1 and 2 into fr and de, modified at time 1 or at time 3 (the parents
\* at times 3 and 2); 19 is a redirect; 21..24 have no parent.
SourceDocs ==
    { Doc(1, "en-US", <<"F", "o", "o">>, <<"F", "<", "o">>, FALSE, 3, NULL,
          Rev(101, 3, <<"F", "&", "o">>, {})),
      Doc(2, "en-US", <<"B", "a", "r">>, <<"B", "a", "r">>, FALSE, 2, NULL,
          NoRevision),
      Doc(3, "en-US", <<"F", "o", "o", "2">>, <<"F", "2">>, FALSE, 1, 1,
          Rev(103, 1, <<"F", "2">>, {})) }

TranslationId(p, l, m) ==
    10 + (IF p = 1 THEN 0 ELSE 4) + (IF l = "fr" THEN 1 ELSE 3)
       + (IF m = 1 THEN 0 ELSE 1)

Translations ==
    { Doc(TranslationId(p, l, m), l,
          IF p = 1 THEN <<"F", "o", "o">> ELSE <<"B", "a", "r">>,
          IF p = 1 THEN <<"f", "o", "o">> ELSE <<"b", ">", "r">>,
          FALSE, m, p,
          IF l = "de" /\ m = 3 THEN NoRevision
          ELSE Rev(100 + TranslationId(p, l, m), m, <<"t">>,
                   IF m = 3 THEN {"inprogress"} ELSE {})) :
        p \in {1, 2}, l \in {"fr", "de"}, m \in {1, 3} }

Redirects ==
    { Doc(19, "fr", <<"F", "o", "o">>, <<"r">>, TRUE, 1, 1,
          Rev(119, 1, <<"r">>, {})) }

Orphans ==
    { Doc(21, "fr", <<"b", "a", "z">>, <<"b", "a", "z">>, FALSE, 1, NULL,
          Rev(121, 1, <<"b", "a", "z">>, {})),
      Doc(22, "de", <<"B", "A", "Z">>, <<"B", "A", "Z">>, FALSE, 3, NULL,
          NoRevision),
      Doc(23, "fr", <<"z", "a", "p">>, <<"z", "a", "p">>, FALSE, 3, NULL,
          Rev(123, 3, <<"z", "a", "p">>, {"inprogress"})),
      Doc(24, "de", <<"z", "a", "p">>, <<"z", "'", "p">>, FALSE, 1, NULL,
          Rev(124, 2, <<"z", "a", "p">>, {})) }

DocumentCatalogue == SourceDocs \cup Translations \cup Redirects \cup Orphans

\* The constraints the wiki schema keeps on the Document table: a parent
\* reference names a stored document, and (slug, locale) and (parent,
\* locale) are each unique.
WellFormedDocuments(D) ==
    /\ \A d \in D : d.parent # NULL => \E p \in D : p.id = d.parent
    /\ \A d, e \in D :
          d # e => /\ ~(d.slug = e.slug /\ d.locale = e.locale)
                   /\ ~(d.parent # NULL /\ d.parent = e.parent
                        /\ d.locale = e.locale)

RECURSIVE SubsetsUpTo(_, _)
SubsetsUpTo(S, n) ==
    IF n = 0 \/ S = {} THEN {{}}
    ELSE LET x == CHOOSE y \in S : TRUE
             rest == SubsetsUpTo(S \ {x}, n)
             with == {T \cup {x} : T \in SubsetsUpTo(S \ {x}, n - 1)}
         IN  rest \cup with

DocumentCollections ==
    {D \in SubsetsUpTo(DocumentCatalogue, MaxDocs) : WellFormedDocuments(D)}

\* doc.parent: the referenced document.
Parent(D, d) == CHOOSE p \in D : p.id = d.parent

-----------------------------------------------------------------------------
(* Responses.                                                              *)

NoBody == [iTotalRecords |-> 0, iTotalDisplayRecords |-> 0, aaData |-> <<>>]

\* HttpResponse(result, mimetype='application/json')
JsonResponse(body) ==
    [status |-> "200 OK", exception |-> "", body |-> body]

\* An exception that leaves the handler: the request ends in a server error.
Fault(exception) ==
    [status |-> "500 Internal Server Error", exception |-> exception,
     body |-> NoBody]

NoRequest == [view |-> "none"]
NoResponse == [status |-> "none", exception |-> "", body |-> NoBody]

-----------------------------------------------------------------------------
(* fetch_localization_data (lines 28-111).  The action models a GET        *)
(* request of an authenticated caller, the case the decorators let in.     *)

\* d[k] = v on a Python dict.
Assign(d, k, v) == (k :> v) @@ d

EmptyDict == [k \in {} |-> TRUE]

\* F('parent__modified'): a reference to a column of the joined parent row.
F_parent__modified == "F(parent__modified)"

\* Lines 31-34: the string parameters with their defaults.
ParamLocale(GET) == GET.locale
ParamTopic(GET) == IF GET.topic = ABSENT_TEXT THEN <<>> ELSE GET.topic
ParamOrderby(GET) == IF GET.orderby = ABSENT THEN "-modified" ELSE GET.orderby
ParamFlags(GET) ==
    IF GET.localization_flags = ABSENT THEN "update-needed"
    ELSE GET.localization_flags

\* Line 36: int(request.GET.get('iDisplayStart', 0)).
DisplayStartParses(GET) ==
    GET.iDisplayStart = ABSENT_TEXT \/ IsIntLiteral(GET.iDisplayStart)

DisplayStart(GET) ==
    IF GET.iDisplayStart = ABSENT_TEXT THEN 0 ELSE IntValue(GET.iDisplayStart)

\* Lines 38-40: the base queryset.
BaseDocs(D) == {d \in D : d.locale # DEFAULT_LOCALE /\ ~d.is_redirect}

\* The sort key if the requested key were never used.
OrderKeyIgnoresRequest(GET) == "-modified"

\* Lines 42-45: the sort key.
OrderKey(GET) ==
    IF ParamOrderby(GET) # "" /\ ParamOrderby(GET) \in OrderKeys
    THEN ParamOrderby(GET)
    ELSE "-modified"

\* The locale condition if the allow-list were not consulted.
LocaleKwargsUnchecked(GET) ==
    IF ParamLocale(GET) # ABSENT /\ ParamLocale(GET) # ""
    THEN Assign(EmptyDict, "locale", ParamLocale(GET))
    ELSE EmptyDict

\* Lines 51-52.
LocaleKwargs(GET) ==
    IF ParamLocale(GET) # ABSENT /\ ParamLocale(GET) # ""
       /\ ParamLocale(GET) \in LANGUAGES
    THEN Assign(EmptyDict, "locale", ParamLocale(GET))
    ELSE EmptyDict

\* The flag conditions if 'missing-parent' left parent__isnull as it was.
FlagKwargsKeepsParent(GET, kw) ==
    LET kw1 == Assign(kw, "parent__isnull", FALSE)
        flags == ParamFlags(GET)
    IN  IF flags = "update-needed"
        THEN Assign(kw1, "modified__lt", F_parent__modified)
        ELSE IF flags = "missing-parent"
        THEN kw1
        ELSE IF flags # "" /\ flags \in LOCALIZATION_FLAGS
        THEN Assign(kw1, "current_revision__localization_tags__name", flags)
        ELSE kw1

\* Lines 56-65.
FlagKwargs(GET, kw) ==
    LET kw1 == Assign(kw, "parent__isnull", FALSE)
        flags == ParamFlags(GET)
    IN  IF flags = "update-needed"
        THEN Assign(kw1, "modified__lt", F_parent__modified)
        ELSE IF flags = "missing-parent"
        THEN Assign(kw1, "parent__isnull", TRUE)
        ELSE IF flags # "" /\ flags \in LOCALIZATION_FLAGS
        THEN Assign(kw1, "current_revision__localization_tags__name", flags)
        ELSE kw1

\* Lines 67-68.
TopicKwargs(GET, kw) ==
    IF ParamTopic(GET) # <<>>
    THEN Assign(kw, "slug__icontains", ParamTopic(GET))
    ELSE kw

\* Lines 49-68: the filter conditions of a request.
QueryKwargs(GET) == TopicKwargs(GET, FlagKwargs(GET, LocaleKwargs(GET)))

\* The keyword conditions if modified__lt admitted equal times.
MatchesNotStrict(D, d, k, v) ==
    CASE k = "locale" -> d.locale = v
      [] k = "parent__isnull" -> (d.parent = NULL) = v
      [] k = "modified__lt" ->
            d.parent # NULL /\ d.modified <= Parent(D, d).modified
      [] k = "current_revision__localization_tags__name" ->
            d.current_revision # NoRevision /\ v \in d.current_revision.tags
      [] k = "slug__icontains" -> IContains(d.slug, v)

\* One keyword condition of QuerySet.filter on the Document table.
Matches(D, d, k, v) ==
    CASE k = "locale" -> d.locale = v
      [] k = "parent__isnull" -> (d.parent = NULL) = v
      [] k = "modified__lt" ->
            d.parent # NULL /\ d.modified < Parent(D, d).modified
      [] k = "current_revision__localization_tags__name" ->
            d.current_revision # NoRevision /\ v \in d.current_revision.tags
      [] k = "slug__icontains" -> IContains(d.slug, v)

\* docs.filter(**query_kwargs): the conditions are conjoined.
Filter(D, Q, kw) == {d \in Q : \A k \in DOMAIN kw : Matches(D, d, k, kw[k])}

\* Lines 70-76.
FilteredDocs(D, GET) ==
    IF DOMAIN QueryKwargs(GET) # {}
    THEN Filter(D, BaseDocs(D), QueryKwargs(GET))
    ELSE BaseDocs(D)

\* order_by(key): d may come before e.
Before(key, d, e) ==
    IF key = "-modified" THEN d.modified >= e.modified
    ELSE d.modified <= e.modified

\* The orders in which the database may return the rows of Q under
\* order_by(key): rows with equal keys come in any order.
RECURSIVE Ordered(_, _)
Ordered(Q, key) ==
    IF Q = {} THEN {<<>>}
    ELSE UNION { {<<d>> \o s : s \in Ordered(Q \ {d}, key)} :
                 d \in {x \in Q : \A y \in Q : Before(key, x, y)} }

\* docs[start:stop] on a sequence of rows (OFFSET start LIMIT stop-start).
Slice(s, start, stop) == SubSeq(s, start + 1, Min(stop, Len(s)))

\* Lines 90-108: the row of one document.
Language(locale) ==
    CASE locale = "en-US" -> "English (US)"
      [] locale = "fr" -> "French"
      [] locale = "de" -> "German"
      [] OTHER -> locale

DocumentUrl(d) == <<"/", d.locale, "/docs/", d.slug>>
RevisionUrl(d, r) == <<"/", d.locale, "/docs/", d.slug, "$revision/", r.id>>
\* '<a href="%s">%s</a>' % (href, text)
Anchor(href, text) == <<"<a href=\"", href, "\">", text, "</a>">>
Href(anchor) == anchor[2]
\* created.strftime('%b %d, %y - %H:%M'): a non-empty text naming the time.
Strftime(t) == <<"%b %d, %y - %H:%M", t>>
\* The empty string ''.
EmptyText == <<>>

\* Lines 95-98 dereference parent.current_revision without a test.
RowFails(D, d) ==
    d.parent # NULL /\ Parent(D, d).current_revision = NoRevision

Row(D, d) ==
    [locale |-> <<Language(d.locale), d.locale>>,
     title |-> Anchor(DocumentUrl(d), escape(d.title)),
     rev_date |-> IF d.current_revision # NoRevision
                  THEN Strftime(d.current_revision.created) ELSE EmptyText,
     parent_title |->
        IF d.parent # NULL
        THEN Anchor(RevisionUrl(Parent(D, d), Parent(D, d).current_revision),
                    escape(Parent(D, d).current_revision.title))
        ELSE EmptyText,
     parent_rev_date |->
        IF d.parent # NULL
        THEN Strftime(Parent(D, d).current_revision.created)
        ELSE EmptyText]

\* Lines 78-82: the rows the loop iterates over, given the ordered rows.
\* The slice is taken only when total >= display_start.
SliceGuard(total, start) == total >= start

Listing(ordered, total, start) ==
    IF SliceGuard(total, start)
    THEN Slice(ordered, start, start + PAGE_SIZE)
    ELSE ordered

\* The outcomes of one request: the response and the rows iterated over.
FetchOutcomes(D, GET) ==
    IF ~DisplayStartParses(GET)
    THEN {[response |-> Fault("ValueError"), docs |-> <<>>]}
    ELSE LET start == DisplayStart(GET)
             Q == FilteredDocs(D, GET)
             total == Cardinality(Q)
         IN  IF SliceGuard(total, start) /\ start < 0
             THEN \* QuerySet.__getitem__ rejects a negative index
                  {[response |-> Fault("AssertionError"), docs |-> <<>>]}
             ELSE { LET page == Listing(o, total, start)
                    IN  IF \E i \in 1..Len(page) : RowFails(D, page[i])
                        THEN [response |-> Fault("AttributeError"),
                              docs |-> page]
                        ELSE [response |-> JsonResponse(
                                 [iTotalRecords |-> total,
                                  iTotalDisplayRecords |-> total,
                                  aaData |-> [i \in 1..Len(page) |->
                                                Row(D, page[i])]]),
                              docs |-> page] :
                    o \in Ordered(Q, OrderKey(GET)) }

\* The query strings the requests are drawn from.
LocaleParams == {ABSENT, "", "fr", "xx"}
TopicParams == {ABSENT_TEXT, <<"A">>}
OrderbyParams == {ABSENT, "", "modified", "title"}
FlagParams == {ABSENT, "update-needed", "missing-parent", "inprogress", "no"}
DisplayStartParams ==
    {ABSENT_TEXT, <<>>, <<"x">>, <<"-", "1">>, <<"0">>, <<"1">>, <<"2">>,
     <<"3">>}

LocalizationRequests ==
    [locale : LocaleParams, topic : TopicParams, orderby : OrderbyParams,
     localization_flags : FlagParams, iDisplayStart : DisplayStartParams]

\* A handler serves a request only once the previous response has left.
Idle == request = NoRequest

\* The response is sent; nothing of the request outlives it.
Deliver ==
    /\ ~Idle
    /\ request' = NoRequest
    /\ response' = NoResponse
    /\ docs' = <<>>
    /\ UNCHANGED <<documents, revisions, users>>

FetchLocalizationData ==
    /\ Idle
    /\ \E GET \in LocalizationRequests :
        \E out \in FetchOutcomes(documents, GET) :
            /\ request' = [view |-> "fetch_localization_data", GET |-> GET]
            /\ response' = out.response
            /\ docs' = out.docs
            /\ UNCHANGED <<documents, revisions, users>>

InitLocalization ==
    /\ documents \in DocumentCollections
    /\ revisions = {}
    /\ users = {}
    /\ request = NoRequest
    /\ response = NoResponse
    /\ docs = <<>>

NextLocalization == FetchLocalizationData \/ Deliver

SpecLocalization == InitLocalization /\ [][NextLocalization]_vars

-----------------------------------------------------------------------------
(* user_lookup (lines 199-213) and topic_lookup (lines 216-230).           *)

\* The usernames a persisted User collection is drawn from.
UserCatalogue ==
    {<<"a", "b">>, <<"A", "z">>, <<"b", "a">>, <<"B", "o">>}

UserCollections == SubsetsUpTo(UserCatalogue, MaxUsers)

\* The orders in which the database may return the rows of an unordered
\* query.
RECURSIVE AnyOrder(_)
AnyOrder(S) ==
    IF S = {} THEN {<<>>}
    ELSE UNION { {<<x>> \o s : s \in AnyOrder(S \ {x})} : x \in S }

\* Line 205 / line 222: request.GET.get(name, '').
LookupParam(q) == IF q = ABSENT_TEXT THEN <<>> ELSE q

\* The user filter if it matched anywhere in the username.
UserMatchesContaining(U, user) == {u \in U : IContains(u, user)}

\* Line 207: User.objects.filter(username__istartswith=user).
UserMatches(U, user) == {u \in U : IStartsWith(u, user)}

\* Line 224: Document.objects.filter(slug__icontains=topic).
TopicMatches(D, topic) == {d \in D : IContains(d.slug, topic)}

Label(text) == [label |-> text]

\* The responses of user_lookup if request.is_ajax() were not tested.
UserLookupIgnoresAjax(U, is_ajax, q) ==
    IF LookupParam(q) # <<>>
    THEN { JsonResponse([i \in 1..Len(o) |-> Label(o[i])]) :
           o \in AnyOrder(UserMatches(U, LookupParam(q))) }
    ELSE {JsonResponse(<<>>)}

\* Lines 202-213: the responses user_lookup may give.
UserLookupOutcomes(U, is_ajax, q) ==
    IF is_ajax /\ LookupParam(q) # <<>>
    THEN { JsonResponse([i \in 1..Len(o) |-> Label(o[i])]) :
           o \in AnyOrder(UserMatches(U, LookupParam(q))) }
    ELSE {JsonResponse(<<>>)}

\* Lines 219-230: the responses topic_lookup may give.
TopicLookupOutcomes(D, is_ajax, q) ==
    IF is_ajax /\ LookupParam(q) # <<>>
    THEN { JsonResponse([i \in 1..Len(o) |-> Label(o[i].slug)]) :
           o \in AnyOrder(TopicMatches(D, LookupParam(q))) }
    ELSE {JsonResponse(<<>>)}

\* The query strings the lookups are drawn from.
LookupParams ==
    {ABSENT_TEXT, <<>>, <<"a">>, <<"A">>, <<"b", "A">>, <<"z">>}

UserLookup ==
    /\ Idle
    /\ \E is_ajax \in BOOLEAN, q \in LookupParams :
        \E r \in UserLookupOutcomes(users, is_ajax, q) :
            /\ request' = [view |-> "user_lookup", is_ajax |-> is_ajax,
                           GET |-> [user |-> q]]
            /\ response' = r
            /\ docs' = <<>>
            /\ UNCHANGED <<documents, revisions, users>>

TopicLookup ==
    /\ Idle
    /\ \E is_ajax \in BOOLEAN, q \in LookupParams :
        \E r \in TopicLookupOutcomes(documents, is_ajax, q) :
            /\ request' = [view |-> "topic_lookup", is_ajax |-> is_ajax,
                           GET |-> [topic |-> q]]
            /\ response' = r
            /\ docs' = <<>>
            /\ UNCHANGED <<documents, revisions, users>>

InitLookup ==
    /\ documents \in DocumentCollections
    /\ revisions = {}
    /\ users \in UserCollections
    /\ request = NoRequest
    /\ response = NoResponse
    /\ docs = <<>>

NextLookup == UserLookup \/ TopicLookup \/ Deliver

SpecLookup == InitLookup /\ [][NextLookup]_vars

-----------------------------------------------------------------------------
(* revisions (lines 140-196).                                              *)

\* The points in time of the model.
Times == {1, 2, 3}

\* A date field of the form that was left empty.
None == 0

Revision(creator, locale, created) ==
    [creator |-> creator, locale |-> locale, created |-> created,
     slug |-> IF (creator = <<"a", "b">>) = (locale = "fr")
              THEN <<"F", "o", "o">> ELSE <<"b", "a", "r">>]

\* The revisions a persisted collection is drawn from: creator.username,
\* document.locale and created vary freely.
RevisionCatalogue ==
    { Revision(c, l, t) :
        c \in {<<"a", "b">>, <<"B", "o">>}, l \in {"fr", "de"}, t \in Times }

RevisionCollections == SubsetsUpTo(RevisionCatalogue, MaxRevs)

\* RevisionDashboardForm(request.GET): the typed fields of a form that
\* validated, or a form that did not validate.
ValidForms ==
    [valid : {TRUE},
     user : {<<>>, <<"A">>}, locale : {"", "fr"}, topic : {<<>>, <<"O">>},
     start_date : {None} \cup Times, end_date : {None} \cup Times]

InvalidForm ==
    [valid |-> FALSE, user |-> <<>>, locale |-> "", topic |-> <<>>,
     start_date |-> None, end_date |-> None]

\* Lines 156-167: the three text filters.
FieldKwargs(form) ==
    LET kw1 == IF form.user # <<>>
               THEN Assign(EmptyDict, "creator__username__istartswith",
                           form.user)
               ELSE EmptyDict
        kw2 == IF form.locale # ""
               THEN Assign(kw1, "document__locale", form.locale) ELSE kw1
    IN  IF form.topic # <<>>
        THEN Assign(kw2, "slug__icontains", form.topic) ELSE kw2

\* The creation-date range if it were applied only with both dates given.
DateKwargsNeedsEndDate(form, now, kw) ==
    IF form.start_date # None /\ form.end_date # None
    THEN Assign(kw, "created__range", <<form.start_date, form.end_date>>)
    ELSE kw

\* Lines 169-173: the creation-date range.
DateKwargs(form, now, kw) ==
    IF form.start_date # None
    THEN Assign(kw, "created__range",
                <<form.start_date,
                  IF form.end_date # None THEN form.end_date ELSE now>>)
    ELSE kw

\* Lines 151-173: False for a form that did not validate, else the dict.
RevisionQueryKwargs(form, now) ==
    IF form.valid THEN DateKwargs(form, now, FieldKwargs(form)) ELSE EmptyDict

\* One keyword condition of QuerySet.filter on the Revision table.
RevisionMatches(r, k, v) ==
    CASE k = "creator__username__istartswith" -> IStartsWith(r.creator, v)
      [] k = "document__locale" -> r.locale = v
      [] k = "slug__icontains" -> IContains(r.slug, v)
      [] k = "created__range" -> v[1] <= r.created /\ r.created <= v[2]

RevisionFilter(R, kw) ==
    {r \in R : \A k \in DOMAIN kw : RevisionMatches(r, k, kw[k])}

\* Lines 175-181: the listed revisions and the reported total.
ListedRevisions(R, form, now) ==
    IF DOMAIN RevisionQueryKwargs(form, now) # {}
    THEN RevisionFilter(R, RevisionQueryKwargs(form, now))
    ELSE R

RevisionTotal(R, form, now) ==
    IF DOMAIN RevisionQueryKwargs(form, now) # {}
    THEN Cardinality(RevisionFilter(R, RevisionQueryKwargs(form, now)))
    ELSE Cardinality(R)

\* order_by('-created'): rows with equal times come in any order.
RECURSIVE NewestFirst(_)
NewestFirst(R) ==
    IF R = {} THEN {<<>>}
    ELSE UNION { {<<r>> \o s : s \in NewestFirst(R \ {r})} :
                 r \in {x \in R : \A y \in R : x.created >= y.created} }

\* sumo.utils.paginate: the page the 1-based page number names, and the
\* first page when the number is missing, malformed or out of range.
PageNumber(page, count) ==
    IF page # ABSENT_TEXT /\ IsIntLiteral(page) /\ IntValue(page) >= 1
       /\ (IntValue(page) - 1) * PAGE_SIZE < count
    THEN IntValue(page) ELSE 1

Paginate(ordered, page) ==
    Slice(ordered, (PageNumber(page, Len(ordered)) - 1) * PAGE_SIZE,
          PageNumber(page, Len(ordered)) * PAGE_SIZE)

\* render(request, template, context)
HtmlResponse(template, context) ==
    [status |-> "200 OK", exception |-> "",
     body |-> [template |-> template, context |-> context]]

\* Lines 186-196: the responses the dashboard may give.
RevisionsOutcomes(R, is_ajax, form, page, now) ==
    { LET context == [revisions |-> Paginate(o, page),
                      page |-> IF page = ABSENT_TEXT THEN <<"1">> ELSE page,
                      total |-> RevisionTotal(R, form, now)]
      IN  IF is_ajax
          THEN HtmlResponse(
                 "dashboards/includes/revision_dashboard_body.html", context)
          ELSE HtmlResponse("dashboards/revisions.html",
                            Assign(context, "form", form)) :
      o \in NewestFirst(ListedRevisions(R, form, now)) }

\* The clock never reads earlier than the creation of a stored revision.
ClockReadings(R) == {t \in Times : \A r \in R : r.created <= t}

Revisions ==
    /\ Idle
    /\ \E is_ajax \in BOOLEAN, form \in ValidForms \cup {InvalidForm},
          page \in {ABSENT_TEXT, <<"2">>}, now \in ClockReadings(revisions) :
        \E r \in RevisionsOutcomes(revisions, is_ajax, form, page, now) :
            /\ request' = [view |-> "revisions", is_ajax |-> is_ajax,
                           form |-> form, page |-> page, now |-> now]
            /\ response' = r
            /\ docs' = r.body.context.revisions
            /\ UNCHANGED <<documents, revisions, users>>

InitRevisions ==
    /\ documents = {}
    /\ revisions \in RevisionCollections
    /\ users = {}
    /\ request = NoRequest
    /\ response = NoResponse
    /\ docs = <<>>

NextRevisions == Revisions \/ Deliver

SpecRevisions == InitRevisions /\ [][NextRevisions]_vars

-----------------------------------------------------------------------------
(* Properties of fetch_localization_data.                                  *)

ServedLocalization == request.view = "fetch_localization_data"
Ok == response.status = "200 OK"
aaData == response.body.aaData

\* The document a row was built from: its link names (locale, slug), which
\* is unique in the collection.
RowDocument(row) ==
    CHOOSE d \in documents : DocumentUrl(d) = Href(row.title)

\* The number of documents that match the filters of the request, stated
\* from the request alone.
RequestedFlag == IF request.GET.localization_flags = ABSENT
                 THEN "update-needed" ELSE request.GET.localization_flags

MatchesRequest(d) ==
    /\ d.locale # DEFAULT_LOCALE
    /\ ~d.is_redirect
    /\ request.GET.locale \in LANGUAGES => d.locale = request.GET.locale
    /\ IF RequestedFlag = "missing-parent" THEN d.parent = NULL
       ELSE d.parent # NULL
    /\ RequestedFlag = "update-needed" =>
          \E p \in documents : p.id = d.parent /\ d.modified < p.modified
    /\ RequestedFlag \in LOCALIZATION_FLAGS
                           \ {"update-needed", "missing-parent"} =>
          /\ d.current_revision # NoRevision
          /\ RequestedFlag \in d.current_revision.tags
    /\ request.GET.topic \notin {ABSENT_TEXT, <<>>} =>
          IContains(d.slug, request.GET.topic)

MatchingDocuments == {d \in documents : MatchesRequest(d)}

\* C1: whenever iDisplayStart is an integer at or beyond the number of
\* documents matching the filters, the response is a JSON response with an
\* empty aaData and with iTotalRecords and iTotalDisplayRecords both equal
\* to the number of matching documents.
C1_OutOfRangeStartGivesEmptyPage ==
    (/\ ServedLocalization
     /\ DisplayStartParses(request.GET)
     /\ DisplayStart(request.GET) >= Cardinality(MatchingDocuments))
    => (/\ Ok
        /\ aaData = <<>>
        /\ response.body.iTotalRecords = Cardinality(MatchingDocuments)
        /\ response.body.iTotalDisplayRecords = Cardinality(MatchingDocuments))

\* C2: every request, whatever its parameters (absent, empty, non-numeric
\* or negative iDisplayStart included), ends in a JSON response and never
\* in a fault.
C2_NeverRaisesOnParameters ==
    ServedLocalization => Ok

\* C3: with localization_flags 'update-needed' (given or by default), every
\* row of aaData comes from a document that has a parent, was modified
\* strictly earlier than its parent, is not in the default locale and is
\* not a redirect.
C3_UpdateNeededRowsAreStale ==
    (ServedLocalization /\ Ok /\ RequestedFlag = "update-needed")
    => \A i \in 1..Len(aaData) :
         /\ \E d \in documents : DocumentUrl(d) = Href(aaData[i].title)
         /\ RowDocument(aaData[i]).parent # NULL
         /\ \E p \in documents :
               /\ p.id = RowDocument(aaData[i]).parent
               /\ RowDocument(aaData[i]).modified < p.modified
         /\ RowDocument(aaData[i]).locale # DEFAULT_LOCALE
         /\ ~RowDocument(aaData[i]).is_redirect

\* A default-flag request that returned a row while the collection also
\* holds a translation that is not older than its parent.
C3_Witness ==
    /\ ServedLocalization /\ Ok
    /\ request.GET.localization_flags = ABSENT
    /\ Len(aaData) >= 1
    /\ \E d \in documents, p \in documents :
          /\ d.locale # DEFAULT_LOCALE /\ ~d.is_redirect
          /\ p.id = d.parent /\ d.modified = p.modified
          /\ p.current_revision # NoRevision

\* C4: with localization_flags 'missing-parent', every row of aaData comes
\* from a document whose parent reference is null, and its parent_title and
\* parent_rev_date are empty.
C4_MissingParentRowsHaveNoParent ==
    (ServedLocalization /\ Ok /\ RequestedFlag = "missing-parent")
    => \A i \in 1..Len(aaData) :
         /\ \E d \in documents : DocumentUrl(d) = Href(aaData[i].title)
         /\ RowDocument(aaData[i]).parent = NULL
         /\ aaData[i].parent_title = EmptyText
         /\ aaData[i].parent_rev_date = EmptyText

\* A missing-parent request that returned a row while the collection also
\* holds a translation that has a parent.
C4_Witness ==
    /\ ServedLocalization /\ Ok
    /\ request.GET.localization_flags = "missing-parent"
    /\ Len(aaData) >= 1
    /\ \E d \in documents :
          d.locale # DEFAULT_LOCALE /\ ~d.is_redirect /\ d.parent # NULL

\* C5: a request whose locale is not a supported locale gets what the same
\* request without the locale parameter gets on the same collection.
C5_UnsupportedLocaleIsIgnored ==
    (/\ ServedLocalization
     /\ request.GET.locale # ABSENT
     /\ request.GET.locale \notin LANGUAGES)
    => [response |-> response, docs |-> docs]
          \in FetchOutcomes(documents, [request.GET EXCEPT !.locale = ABSENT])

\* A request for an unsupported, non-empty locale that returned rows of
\* documents in two different locales.
C5_Witness ==
    /\ ServedLocalization /\ Ok
    /\ request.GET.locale = "xx"
    /\ Len(aaData) >= 2
    /\ RowDocument(aaData[1]).locale # RowDocument(aaData[2]).locale

\* C8: on a request whose iDisplayStart lies within the listing, a listed
\* document whose parent has no current revision still gets its row, with
\* empty parent_title and parent_rev_date, and the handler does not fail; a
\* listed document without a current revision of its own gets an empty
\* rev_date.
C8_ParentWithoutRevisionGivesEmptyCells ==
    (/\ ServedLocalization
     /\ DisplayStartParses(request.GET)
     /\ DisplayStart(request.GET) >= 0
     /\ DisplayStart(request.GET) <= Cardinality(MatchingDocuments))
    => \A i \in 1..Len(docs) :
         /\ (docs[i].parent # NULL
             /\ Parent(documents, docs[i]).current_revision = NoRevision)
            => (/\ Ok
                /\ Len(aaData) = Len(docs)
                /\ aaData[i].parent_title = EmptyText
                /\ aaData[i].parent_rev_date = EmptyText)
         /\ (Ok /\ docs[i].current_revision = NoRevision)
            => aaData[i].rev_date = EmptyText

\* C10: the listing is ordered by the requested key when that key is
\* non-empty and in the allow-list, and by '-modified' otherwise; for
\* 0 <= iDisplayStart < total the rows are those at positions
\* iDisplayStart .. iDisplayStart + PAGE_SIZE - 1 of the matching documents
\* in that order.
RequestedKey ==
    IF /\ request.GET.orderby # ABSENT
       /\ request.GET.orderby # ""
       /\ \E o \in ORDERS : o[1] = request.GET.orderby
    THEN request.GET.orderby
    ELSE "-modified"

InRequestedOrder(o) ==
    \A i, j \in 1..Len(o) :
        i < j => IF RequestedKey = "-modified"
                 THEN o[i].modified >= o[j].modified
                 ELSE o[i].modified <= o[j].modified

OrderingsOfMatching ==
    {o \in [1..Cardinality(MatchingDocuments) -> MatchingDocuments] :
        /\ \A i, j \in DOMAIN o : i # j => o[i] # o[j]
        /\ InRequestedOrder(o)}

C10_PageIsSliceOfOrderedListing ==
    (/\ ServedLocalization /\ Ok
     /\ DisplayStart(request.GET) >= 0
     /\ DisplayStart(request.GET) < Cardinality(MatchingDocuments))
    => \E o \in OrderingsOfMatching :
         LET start == DisplayStart(request.GET)
             n == Min(PAGE_SIZE, Len(o) - start)
         IN  /\ Len(aaData) = n
             /\ \A i \in 1..n : aaData[i] = Row(documents, o[start + i])

\* A request ordered by 'modified' whose page starts inside the listing and
\* is full, with rows of different modification times.
C10_Witness ==
    /\ ServedLocalization /\ Ok
    /\ request.GET.orderby = "modified"
    /\ DisplayStart(request.GET) = 1
    /\ Len(aaData) = PAGE_SIZE
    /\ RowDocument(aaData[1]).modified < RowDocument(aaData[2]).modified

-----------------------------------------------------------------------------
(* Properties of user_lookup and topic_lookup.                             *)

ServedUserLookup == request.view = "user_lookup"
ServedTopicLookup == request.view = "topic_lookup"

LookupQuery ==
    IF ServedUserLookup THEN request.GET.user ELSE request.GET.topic

Labels == {response.body[i].label : i \in 1..Len(response.body)}

\* The number of entries of the response that carry the label.
Entries(label) ==
    Cardinality({i \in 1..Len(response.body) : response.body[i].label = label})

\* C6: a lookup that is not an asynchronous request, or whose query
\* parameter is empty or missing, answers with the empty JSON list.
C6_LookupEmptyUnlessAjaxWithQuery ==
    (/\ ServedUserLookup \/ ServedTopicLookup
     /\ ~request.is_ajax \/ LookupQuery \in {ABSENT_TEXT, <<>>})
    => response = JsonResponse(<<>>)

\* A user lookup that is not asynchronous although its query is the start
\* of a stored username.
C6_Witness ==
    /\ ServedUserLookup
    /\ ~request.is_ajax
    /\ request.GET.user = <<"a">>
    /\ <<"a", "b">> \in users
    /\ response = JsonResponse(<<>>)

\* C7 as stated: on an asynchronous request with a non-empty query q, both
\* lookups return one entry for exactly the stored values that contain q
\* case-insensitively.
C7_BothLookupsMatchBySubstring ==
    /\ (ServedUserLookup /\ request.is_ajax /\ LookupParam(LookupQuery) # <<>>)
       => /\ response.status = "200 OK"
          /\ Labels = {u \in users : IContains(u, LookupQuery)}
          /\ \A u \in Labels : Entries(u) = 1
    /\ (ServedTopicLookup /\ request.is_ajax /\ LookupParam(LookupQuery) # <<>>)
       => /\ response.status = "200 OK"
          /\ \A d \in documents :
                IContains(d.slug, LookupQuery) => d.slug \in Labels
          /\ \A l \in Labels :
                Entries(l) = Cardinality({d \in documents :
                                 d.slug = l /\ IContains(d.slug, LookupQuery)})

\* C7 as amended: user_lookup returns one entry for exactly the usernames
\* that start with q case-insensitively; topic_lookup returns one entry for
\* exactly the documents whose slug contains q case-insensitively; neither
\* limits the number of entries.
C7_UserLookupMatchesByPrefix ==
    /\ (ServedUserLookup /\ request.is_ajax /\ LookupParam(LookupQuery) # <<>>)
       => /\ response.status = "200 OK"
          /\ Labels = {u \in users :
                         /\ Len(LookupQuery) <= Len(u)
                         /\ \A i \in 1..Len(LookupQuery) :
                               Lower(u[i]) = Lower(LookupQuery[i])}
          /\ \A u \in Labels : Entries(u) = 1
    /\ (ServedTopicLookup /\ request.is_ajax /\ LookupParam(LookupQuery) # <<>>)
       => /\ response.status = "200 OK"
          /\ \A d \in documents :
                IContains(d.slug, LookupQuery) => d.slug \in Labels
          /\ \A l \in Labels :
                Entries(l) = Cardinality({d \in documents :
                                 d.slug = l /\ IContains(d.slug, LookupQuery)})

\* An asynchronous user lookup for "A" over usernames of which two start
\* with it in either case and one only contains it.
C7_Witness ==
    /\ ServedUserLookup
    /\ request.is_ajax
    /\ request.GET.user = <<"A">>
    /\ users = {<<"a", "b">>, <<"A", "z">>, <<"b", "a">>}
    /\ Labels = {<<"a", "b">>, <<"A", "z">>}

-----------------------------------------------------------------------------
(* Properties of revisions.                                                *)

ServedRevisions == request.view = "revisions"

\* The creation-date condition C9 describes, stated from the form alone.
InDateRange(r) ==
    request.form.start_date # None =>
        /\ request.form.start_date <= r.created
        /\ r.created <= (IF request.form.end_date # None
                         THEN request.form.end_date ELSE request.now)

MatchesForm(r) ==
    /\ request.form.user # <<>> => IStartsWith(r.creator, request.form.user)
    /\ request.form.locale # "" => r.locale = request.form.locale
    /\ request.form.topic # <<>> => IContains(r.slug, request.form.topic)
    /\ InDateRange(r)

\* C9: with a valid form the creation-date range is applied exactly when
\* start_date is given, as [start_date, end_date] or, without an end_date,
\* as [start_date, now]; the reported total is the number of revisions that
\* match the applied conditions (every revision, when the form is not
\* valid and no condition is applied), and only such revisions are listed.
C9_DateRangeAppliedIffStartDate ==
    /\ (ServedRevisions /\ request.form.valid)
       => /\ response.body.context.total
                = Cardinality({r \in revisions : MatchesForm(r)})
          /\ \A i \in 1..Len(response.body.context.revisions) :
                /\ response.body.context.revisions[i] \in revisions
                /\ MatchesForm(response.body.context.revisions[i])
    /\ (ServedRevisions /\ ~request.form.valid)
       => response.body.context.total = Cardinality(revisions)

\* A dashboard request with a start date and no end date, over a
\* collection with a revision before the start date and one after it.
C9_Witness ==
    /\ ServedRevisions /\ request.form.valid
    /\ request.form.start_date = 2
    /\ request.form.end_date = None
    /\ request.now = 3
    /\ \E r \in revisions : r.created = 1
    /\ \E r \in revisions : r.created = 3
    /\ response.body.context.total = 1

====
